---- MODULE Spec2Model ----
(***************************************************************************)
(* Model of pod/video/management/commands/bbb.py: the management command   *)
(* that reconciles BigBlueButton meetings with the Pod database, polls for *)
(* recordings, matches BBB moderators to Pod users, ingests the video      *)
(* files dropped by bbb-recorder and mails the accumulated errors.         *)
(*                                                                         *)
(* One run of Command.handle is a sequence of steps under pc.  Every loop  *)
(* over a list received from the remote server (meetings, attendees,       *)
(* recordings) and over the files of the drop directory is one step per    *)
(* element, the element being chosen freely: a remote response is any      *)
(* finite list.  Strings that the code compares by content (names) are     *)
(* sequences of one-character strings.                                     *)
(***************************************************************************)
EXTENDS Integers, Sequences, FiniteSets, TLC

(***************************************************************************)
(* Bounds of the model.                                                    *)
(***************************************************************************)
MaxRuns == 2          \* invocations of the command
MaxDay == 5           \* last day the clock reaches
MaxRemoteDay == 1     \* createDate values sent by the remote server: 0..MaxRemoteDay
MaxFaults == 1        \* errors met by one run before it ends (failed calls, bad elements)
MaxPlaybacks == 2     \* playback entries of one recording
MaxMeetings == 2      \* meetings of one whole discovery response (SpecIdem)
MaxAttendees == 1     \* attendees of one meeting of a whole response (SpecIdem)
MaxExtra == 25        \* unresolved rows below and above MatchLimit (SpecMatcher)

(***************************************************************************)
(* Program constants.                                                      *)
(***************************************************************************)
WindowDays == 4
MatchLimit == 500
DEFAULT_BBB_TYPE_ID == 1
NoId == 0             \* a NULL key (primary keys start at 1)

BBB_USERNAME_FORMAT == "first_name last_name"
VIDEO_ALLOWED_EXTENSIONS ==
    {"3gp", "avi", "divx", "flv", "m2p", "m4v", "mkv", "mov", "mp4", "mpeg",
     "mpg", "mts", "wmv", "mp3", "ogg", "wav", "wma", "webm", "ts"}

NULL == "NULL"        \* a NULL text column
NoElem == "NoElem"    \* an XML element that is absent: [0] raises IndexError
NoText == <<>>        \* the same for a text compared by content

(***************************************************************************)
(* Strings compared by content.                                            *)
(***************************************************************************)
Jean == <<"J", "e", "a", "n">>
Dupont == <<"D", "u", "p", "o", "n", "t">>
Marie == <<"M", "a", "r", "i", "e">>
Curie == <<"C", "u", "r", "i", "e">>
Ana == <<"A", "n", "a">>
Space == <<" ">>
JeanDupont == Jean \o Space \o Dupont
AnaGomez == Ana \o Space \o <<"G", "o", "m", "e", "z">>

\* django.contrib.auth User rows when the command is first run.
PodUsers ==
    << [id |-> 1, username |-> "jdupont", first_name |-> Jean, last_name |-> Dupont],
       [id |-> 2, username |-> "mcurie", first_name |-> Marie, last_name |-> Curie] >>

\* The same table once account 1 belongs to somebody else.
PodUsersLater ==
    << [id |-> 1, username |-> "adupont", first_name |-> Ana, last_name |-> Dupont],
       [id |-> 2, username |-> "mcurie", first_name |-> Marie, last_name |-> Curie] >>

AccountTables == {PodUsers, PodUsersLater}

(***************************************************************************)
(* What the remote server and the file system can hand to the command.    *)
(***************************************************************************)
InternalIds == {"M1", "M2"}
ExternalIds == {"E1"}
MeetingNames == {"Cours"}
FullNames == {JeanDupont, Dupont, AnaGomez}
Roles == {"MODERATOR", "VIEWER"}
MalformedDate == <<"garbage">>
DateText(d) == <<"date", d>>
CreateDates == {DateText(d) : d \in 0..MaxRemoteDay} \cup {MalformedDate}

RemoteAttendees == [fullName : FullNames \cup {NoText}, role : Roles]

RemoteMeetings ==
    [meetingName : MeetingNames, meetingID : ExternalIds,
     internalMeetingID : InternalIds \cup {NoElem},
     createDate : CreateDates, recording : {"true", "false"}]

Statuses == {"SUCCESS", "FAILED", "MALFORMED"}

Playbacks ==
    {[url |-> "U1", image |-> "T1"], [url |-> "U2", image |-> "T2"],
     [url |-> NoElem, image |-> "T1"]}

SeqsUpTo(S, n) == UNION {[1..k -> S] : k \in 0..n}

RemoteRecordings ==
    [internalMeetingID : InternalIds \cup {NoElem},
     playbacks : SeqsUpTo(Playbacks, MaxPlaybacks)]

\* File names of the drop directory, as their dot-separated components.
FileNames == {<<"M1", "webm">>, <<"M2", "webm">>, <<"M1", "txt">>}
Outcomes == {"ok", "rename_fails", "save_fails", "encode_fails"}

VARIABLES
    meetings,            \* table pod.bbb Meeting, row i has primary key i
    bbbUsers,            \* table pod.bbb User, row i has primary key i
    videos,              \* table pod.video Video
    encoded,             \* video ids handed to ENCODE_VIDEO
    files,               \* files of DEFAULT_BBB_PATH
    pc,                  \* where the current run of handle stands
    runs,                \* invocations so far
    now,                 \* timezone.now(), in days
    message_error,       \* handle's message_error
    html_message_error,  \* handle's html_message_error
    caught,              \* errors that reached an except clause in this run
    mailed,              \* mail_admins calls of this run
    uncaught,            \* the exception that left handle, if any
    idActualMeeting,     \* get_meeting's idActualMeeting while its attendees are read
    queue,               \* get_bbb_meetings_recorded's queryset, rows still to poll
    requests,            \* primary keys polled in this run, in order
    urlAtStart,          \* recording_url of every row when the run started
    todo,                \* files of the walk not handled yet
    faults,              \* errors met by this run so far
    resp,                \* the last whole discovery response (SpecIdem)
    podUsers,            \* table django.contrib.auth User, in primary-key order
    oMeeting             \* what get_meeting of an overlapping run holds, read and not yet saved

vars == <<meetings, bbbUsers, videos, encoded, files, pc, runs, now,
          message_error, html_message_error, caught, mailed, uncaught,
          idActualMeeting, queue, requests, urlAtStart, todo, faults, resp, podUsers, oMeeting>>

(***************************************************************************)
(* Error texts built by the except clauses and the FAILED branches.       *)
(***************************************************************************)
ErrFailedMeetings == "Return code = FAILED for getMeetings"
ErrParseMeetings == "Problem to parse XML meetings"
ErrGetMeeting == "Problem to get BBB meeting"
ErrGetAttendee == "Problem to get BBB attendee"
ErrFailedRecordings == "Return code = FAILED for getRecordings"
ErrParseRecording == "Problem to parse XML recording"
ErrGetRecording == "Problem to get BBB recording"

Li(err) == <<"<li>", err, "</li>">>

Min(S) == CHOOSE x \in S : \A y \in S : x <= y

(***************************************************************************)
(* Session Reconciler: get_attendee, get_meeting, get_bbb_meetings_by_xml. *)
(***************************************************************************)

\* As FindBBBUser, the search made with idActualMeeting as it is before the
\* meeting is known (0).
FindBBBUser_before_meeting(users, fullName, meetingId) ==
    LET hits == {i \in DOMAIN users : /\ users[i].full_name = fullName
                                      /\ users[i].meeting_id = 0}
    IN  IF hits = {} THEN 0 ELSE Min(hits)

\* BBBUser.objects.filter(full_name=..., meeting_id=...).first(): 0 if none.
FindBBBUser(users, fullName, meetingId) ==
    LET hits == {i \in DOMAIN users : /\ users[i].full_name = fullName
                                      /\ users[i].meeting_id = meetingId}
    IN  IF hits = {} THEN 0 ELSE Min(hits)

\* As get_attendee, without the test of the role.
get_attendee_any_role(users, attendee, meetingId) ==
    IF attendee.fullName = NoText
    THEN [users |-> users, caught |-> {ErrGetAttendee}]
    ELSE IF FindBBBUser(users, attendee.fullName, meetingId) = 0
    THEN [users |-> Append(users, [full_name |-> attendee.fullName,
                                   role |-> "MODERATOR",
                                   meeting_id |-> meetingId,
                                   user_id |-> NoId,
                                   username |-> NULL]),
          caught |-> {}]
    ELSE [users |-> users, caught |-> {}]

\* One call of get_attendee: the table afterwards, and whether the except
\* clause was entered.  The texts it appends go to its own parameters only.
get_attendee(users, attendee, meetingId) ==
    IF attendee.fullName = NoText
    THEN [users |-> users, caught |-> {ErrGetAttendee}]
    ELSE IF attendee.role = "MODERATOR" /\ FindBBBUser(users, attendee.fullName, meetingId) = 0
    THEN [users |-> Append(users, [full_name |-> attendee.fullName,
                                   role |-> "MODERATOR",
                                   meeting_id |-> meetingId,
                                   user_id |-> NoId,
                                   username |-> NULL]),
          caught |-> {}]
    ELSE [users |-> users, caught |-> {}]

\* As FindMeeting, the filter written on the column meeting_id.
FindMeeting_by_meeting_id(ms, internalId) ==
    LET hits == {i \in DOMAIN ms : ms[i].meeting_id = internalId}
    IN  IF hits = {} THEN 0 ELSE Min(hits)

\* Meeting.objects.filter(internal_meeting_id=...).first(): 0 if none.
FindMeeting(ms, internalId) ==
    LET hits == {i \in DOMAIN ms : ms[i].internal_meeting_id = internalId}
    IN  IF hits = {} THEN 0 ELSE Min(hits)

\* get_meeting's search for the meeting of the response in the database.
ExistingMeeting(ms, m) == FindMeeting(ms, m.internalMeetingID)

\* dateutil.parser.parse(date, ignoretz=False)
dateutil_parse(text) ==
    IF Len(text) = 2 /\ text[1] = "date"
    THEN [ok |-> TRUE, value |-> text[2]]
    ELSE [ok |-> FALSE, value |-> 0]

\* As get_meeting, recorded following the flag of the response both ways.
get_meeting_follows_flag(ms, m) ==
    IF m.internalMeetingID = NoElem
    THEN [meetings |-> ms, id |-> 0, caught |-> {ErrGetMeeting}]
    ELSE LET found == ExistingMeeting(ms, m)
             date == dateutil_parse(m.createDate)
         IN  IF found # 0
             THEN [meetings |-> [ms EXCEPT ![found].recorded = (m.recording = "true")],
                   id |-> found, caught |-> {}]
             ELSE IF ~date.ok
             THEN [meetings |-> ms, id |-> 0, caught |-> {ErrGetMeeting}]
             ELSE [meetings |-> Append(ms,
                       [id |-> Len(ms) + 1,
                        meeting_id |-> m.meetingID,
                        internal_meeting_id |-> m.internalMeetingID,
                        meeting_name |-> m.meetingName,
                        session_date |-> date.value,
                        encoding_step |-> 0,
                        recorded |-> (m.recording = "true"),
                        recording_available |-> FALSE,
                        recording_url |-> NULL,
                        thumbnail_url |-> NULL,
                        encoded_by_id |-> NoId]),
                   id |-> Len(ms) + 1, caught |-> {}]

\* get_meeting up to the loop over the attendees: the table afterwards, the
\* idActualMeeting the attendees are attached to (0: the loop is not reached)
\* and the errors caught.
get_meeting(ms, m) ==
    IF m.internalMeetingID = NoElem
    THEN [meetings |-> ms, id |-> 0, caught |-> {ErrGetMeeting}]
    ELSE LET found == ExistingMeeting(ms, m)
             date == dateutil_parse(m.createDate)
         IN  IF found # 0
             THEN [meetings |-> IF ms[found].recorded = FALSE /\ m.recording = "true"
                                THEN [ms EXCEPT ![found].recorded = TRUE]
                                ELSE ms,
                   id |-> found, caught |-> {}]
             ELSE IF ~date.ok
             THEN [meetings |-> ms, id |-> 0, caught |-> {ErrGetMeeting}]
             ELSE [meetings |-> Append(ms,
                       [id |-> Len(ms) + 1,
                        meeting_id |-> m.meetingID,
                        internal_meeting_id |-> m.internalMeetingID,
                        meeting_name |-> m.meetingName,
                        session_date |-> date.value,
                        encoding_step |-> 0,
                        recorded |-> (m.recording = "true"),
                        recording_available |-> FALSE,
                        recording_url |-> NULL,
                        thumbnail_url |-> NULL,
                        encoded_by_id |-> NoId]),
                   id |-> Len(ms) + 1, caught |-> {}]

\* The loop of get_meeting over the attendees of one meeting.
RECURSIVE get_attendees(_, _, _)
get_attendees(users, attendees, meetingId) ==
    IF attendees = <<>>
    THEN [users |-> users, caught |-> {}]
    ELSE LET one == get_attendee(users, Head(attendees), meetingId)
             rest == get_attendees(one.users, Tail(attendees), meetingId)
         IN  [users |-> rest.users, caught |-> one.caught \cup rest.caught]

\* The loop of get_bbb_meetings_by_xml over the meetings of a response, each
\* a record [meeting, attendees]: what get_meeting does to both tables.
RECURSIVE get_meetings(_, _, _)
get_meetings(ms, users, list) ==
    IF list = <<>>
    THEN [meetings |-> ms, users |-> users, caught |-> {}]
    ELSE LET one == get_meeting(ms, Head(list).meeting)
             att == IF one.id = 0
                    THEN [users |-> users, caught |-> {}]
                    ELSE get_attendees(users, Head(list).attendees, one.id)
             rest == get_meetings(one.meetings, att.users, Tail(list))
         IN  [meetings |-> rest.meetings, users |-> rest.users,
              caught |-> one.caught \cup att.caught \cup rest.caught]

\* get_bbb_meetings_by_xml on a whole response [status, meetings]: a response
\* that does not parse raises before any meeting is read, FAILED is reported
\* and the meetings are read all the same.  Only the texts appended by
\* get_bbb_meetings_by_xml itself reach the strings it returns.
get_bbb_meetings_by_xml(ms, users, response, html, message) ==
    IF response.status = "MALFORMED"
    THEN [meetings |-> ms, users |-> users,
          html_message_error |-> Append(html, Li(ErrParseMeetings)),
          message_error |-> Append(message, ErrParseMeetings),
          caught |-> {ErrParseMeetings}]
    ELSE LET done == get_meetings(ms, users, response.meetings)
             failed == response.status = "FAILED"
         IN  [meetings |-> done.meetings, users |-> done.users,
              html_message_error |-> IF failed THEN Append(html, Li(ErrFailedMeetings))
                                     ELSE html,
              message_error |-> IF failed THEN Append(message, ErrFailedMeetings)
                                ELSE message,
              caught |-> done.caught]

(***************************************************************************)
(* Recording Poller: get_bbb_meetings_recorded, get_recording.            *)
(***************************************************************************)

\* As RecordedQuery, without the filter recording_available=False.
RecordedQuery_available_too(ms, today) ==
    LET Test(m) == /\ m.recorded = TRUE
                   /\ m.session_date >= today - WindowDays
    IN  SelectSeq(ms, Test)

\* As RecordedQuery, with session_date__gt for session_date__gte.
RecordedQuery_gt(ms, today) ==
    LET Test(m) == /\ m.recorded = TRUE
                   /\ m.recording_available = FALSE
                   /\ m.session_date > today - WindowDays
    IN  SelectSeq(ms, Test)

\* The queryset of get_bbb_meetings_recorded, ordered by id.
RecordedQuery(ms, today) ==
    LET Test(m) == /\ m.recorded = TRUE
                   /\ m.recording_available = FALSE
                   /\ m.session_date >= today - WindowDays
    IN  SelectSeq(ms, Test)

\* As SaveRecording, the assignment of recording_url forgotten.
SaveRecording_without_url(ms, found, recording_url, thumbnail_url) ==
    [ms EXCEPT ![found].recording_available = TRUE,
               ![found].thumbnail_url = thumbnail_url]

\* get_recording's update of the meeting found, and its save.
SaveRecording(ms, found, recording_url, thumbnail_url) ==
    [ms EXCEPT ![found].recording_available = TRUE,
               ![found].recording_url = recording_url,
               ![found].thumbnail_url = thumbnail_url]

\* As get_recording, the Session marked and saved before its playbacks are
\* read.
get_recording_marks_first(ms, recording, internal_meeting_id) ==
    IF recording.internalMeetingID = NoElem
    THEN [meetings |-> ms, caught |-> {ErrGetRecording}]
    ELSE IF recording.internalMeetingID # internal_meeting_id
    THEN [meetings |-> ms, caught |-> {}]
    ELSE LET found == FindMeeting(ms, internal_meeting_id)
             pb == recording.playbacks
             recording_url == IF pb = <<>> THEN "" ELSE pb[Len(pb)].url
             thumbnail_url == IF pb = <<>> THEN NULL ELSE pb[Len(pb)].image
         IN  IF found = 0
             THEN [meetings |-> ms, caught |-> {}]
             ELSE IF \E k \in DOMAIN pb : pb[k].url = NoElem
             THEN [meetings |-> [ms EXCEPT ![found].recording_available = TRUE],
                   caught |-> {ErrGetRecording}]
             ELSE IF recording_url # ""
             THEN [meetings |-> SaveRecording(ms, found, recording_url, thumbnail_url),
                   caught |-> {}]
             ELSE [meetings |-> ms, caught |-> {}]

\* As get_recording, without the test of the recording's internalMeetingID.
get_recording_any_id(ms, recording, internal_meeting_id) ==
    IF recording.internalMeetingID = NoElem
    THEN [meetings |-> ms, caught |-> {ErrGetRecording}]
    ELSE LET found == FindMeeting(ms, internal_meeting_id)
             pb == recording.playbacks
             recording_url == IF pb = <<>> THEN "" ELSE pb[Len(pb)].url
             thumbnail_url == IF pb = <<>> THEN NULL ELSE pb[Len(pb)].image
         IN  IF found = 0
             THEN [meetings |-> ms, caught |-> {}]
             ELSE IF \E k \in DOMAIN pb : pb[k].url = NoElem
             THEN [meetings |-> ms, caught |-> {ErrGetRecording}]
             ELSE IF recording_url # ""
             THEN [meetings |-> SaveRecording(ms, found, recording_url, thumbnail_url),
                   caught |-> {}]
             ELSE [meetings |-> ms, caught |-> {}]

\* One call of get_recording for the meeting polled (internal_meeting_id).
get_recording(ms, recording, internal_meeting_id) ==
    IF recording.internalMeetingID = NoElem
    THEN [meetings |-> ms, caught |-> {ErrGetRecording}]
    ELSE IF recording.internalMeetingID # internal_meeting_id
    THEN [meetings |-> ms, caught |-> {}]
    ELSE LET found == FindMeeting(ms, internal_meeting_id)
             pb == recording.playbacks
             \* the loop over the playbacks leaves the values of the last one
             recording_url == IF pb = <<>> THEN "" ELSE pb[Len(pb)].url
             thumbnail_url == IF pb = <<>> THEN NULL ELSE pb[Len(pb)].image
         IN  IF found = 0
             THEN [meetings |-> ms, caught |-> {}]
             ELSE IF \E k \in DOMAIN pb : pb[k].url = NoElem
             THEN [meetings |-> ms, caught |-> {ErrGetRecording}]
             ELSE IF recording_url # ""
             THEN [meetings |-> SaveRecording(ms, found, recording_url, thumbnail_url),
                   caught |-> {}]
             ELSE [meetings |-> ms, caught |-> {}]

(***************************************************************************)
(* Identity Matcher: matching_bbb_pod_user.                               *)
(***************************************************************************)
lower(c) ==
    CASE c = "A" -> "a" [] c = "C" -> "c" [] c = "D" -> "d" [] c = "G" -> "g"
      [] c = "J" -> "j" [] c = "M" -> "m" [] OTHER -> c

\* As icontains, the two texts exchanged: name occurs in needle.
icontains_exchanged(name, needle) ==
    \E start \in 0..(Len(needle) - Len(name)) :
        \A k \in 1..Len(name) : lower(needle[start + k]) = lower(name[k])

\* name__icontains=needle: needle occurs in name, whatever the case.
icontains(name, needle) ==
    \E start \in 0..(Len(name) - Len(needle)) :
        \A k \in 1..Len(needle) : lower(name[start + k]) = lower(needle[k])

\* Concat('last_name', Value(' '), 'first_name') or the reverse.
bbbUsernameFormat(user) ==
    IF BBB_USERNAME_FORMAT = "last_name first_name"
    THEN user.last_name \o Space \o user.first_name
    ELSE user.first_name \o Space \o user.last_name

\* User.objects.annotate(name=...).filter(name__icontains=...).first(): the
\* index in podUsers of the first account that matches, 0 if none.
FindPodUser(full_name) ==
    LET hits == {u \in DOMAIN podUsers :
                    icontains(bbbUsernameFormat(podUsers[u]), full_name)}
    IN  IF hits = {} THEN 0 ELSE Min(hits)

\* As Unmatched, without the filter user_id__isnull=True.
Unmatched_every_row(users) ==
    {i \in DOMAIN users : Cardinality({j \in DOMAIN users : j > i}) < MatchLimit}

\* filter(user_id__isnull=True).order_by('-id')[:500]: the keys examined.
Unmatched(users) ==
    LET open == {i \in DOMAIN users : users[i].user_id = NoId}
    IN  {i \in open : Cardinality({j \in open : j > i}) < MatchLimit}

\* matching_bbb_pod_user: the table afterwards.
matching_bbb_pod_user(users) ==
    LET examined == Unmatched(users)
    IN  [i \in DOMAIN users |->
            IF i \in examined /\ FindPodUser(users[i].full_name) # 0
            THEN [users[i] EXCEPT
                     !.username = podUsers[FindPodUser(users[i].full_name)].username,
                     !.user_id = podUsers[FindPodUser(users[i].full_name)].id]
            ELSE users[i]]

(***************************************************************************)
(* Recording Ingestor: process_directory, encode_file_exist.              *)
(***************************************************************************)

\* extension = filename.split(".")[-1]
Extension(filename) == filename[Len(filename)]

\* extension in valid_ext and filename != extension
IsVideoFile(filename) ==
    /\ Extension(filename) \in VIDEO_ALLOWED_EXTENSIONS
    /\ Len(filename) > 1

\* filename.replace("." + extension, ""): every ".extension" goes, the name
\* is what is left (one component for the files of FileNames).
InternalIdOf(filename) ==
    LET Keep(c) == c # Extension(filename)
        left == <<filename[1]>> \o SelectSeq(Tail(filename), Keep)
    IN  IF Len(left) = 1 THEN left[1] ELSE "?"

\* encode_file_exist for one file: outcome says which call, if any, raises
\* (os.rename, video.save, ENCODE_VIDEO).  Nothing is caught here.
encode_file_exist(ms, vids, enc, dir, filename, outcome) ==
    LET found == FindMeeting(ms, InternalIdOf(filename))
        video == [id |-> Len(vids) + 1,
                  title |-> ms[found].meeting_name,
                  owner |-> ms[found].encoded_by_id,
                  type |-> DEFAULT_BBB_TYPE_ID,
                  date_evt |-> ms[found].session_date,
                  video |-> filename]
        same == [videos |-> vids, encoded |-> enc, files |-> dir, raised |-> "none"]
    IN  IF found = 0 THEN same
        ELSE IF outcome = "rename_fails" THEN [same EXCEPT !.raised = "OSError"]
        ELSE IF outcome = "save_fails"
        THEN [same EXCEPT !.files = dir \ {filename}, !.raised = "DatabaseError"]
        ELSE IF outcome = "encode_fails"
        THEN [same EXCEPT !.files = dir \ {filename},
                          !.videos = Append(vids, video),
                          !.raised = "EncodeError"]
        ELSE [same EXCEPT !.files = dir \ {filename},
                          !.videos = Append(vids, video),
                          !.encoded = Append(enc, video.id)]

(***************************************************************************)
(* The run: Command.handle, one step at a time.                           *)
(***************************************************************************)
Ended == {"idle", "done", "aborted"}

Init ==
    /\ meetings = <<>>
    /\ bbbUsers = <<>>
    /\ videos = <<>>
    /\ encoded = <<>>
    /\ files = {}
    /\ pc = "idle"
    /\ runs = 0
    /\ now = 0
    /\ message_error = <<>>
    /\ html_message_error = <<>>
    /\ caught = {}
    /\ mailed = 0
    /\ uncaught = "none"
    /\ idActualMeeting = 0
    /\ queue = <<>>
    /\ requests = <<>>
    /\ urlAtStart = <<>>
    /\ todo = {}
    /\ faults = 0
    /\ resp = <<>>
    /\ podUsers = PodUsers
    /\ oMeeting = <<>>

store == <<meetings, bbbUsers, videos, encoded, files>>
report == <<message_error, html_message_error>>

\* An error is met: the run has met fewer than MaxFaults so far.
Fault(n) == /\ faults + n <= MaxFaults
            /\ faults' = faults + n

\* bbb-recorder writes a file into DEFAULT_BBB_PATH.  Only os.walk reads the
\* directory, so a file written at any moment before the listing is written
\* right before it.
DropFile(f) ==
    /\ pc = "walk"
    /\ f \notin files
    /\ files' = files \cup {f}
    /\ UNCHANGED <<meetings, bbbUsers, videos, encoded, pc, runs, now, report,
                   caught, mailed, uncaught, idActualMeeting, queue, requests,
                   urlAtStart, todo, faults, resp, podUsers, oMeeting>>

\* The scheduler invokes the command with argument `task`.
StartRun(task) ==
    /\ pc \in Ended
    /\ runs < MaxRuns
    /\ runs' = runs + 1
    /\ message_error' = <<>>
    /\ html_message_error' = <<>>
    /\ caught' = {}
    /\ mailed' = 0
    /\ uncaught' = "none"
    /\ requests' = <<>>
    /\ queue' = <<>>
    /\ todo' = {}
    /\ faults' = 0
    /\ idActualMeeting' = 0
    /\ urlAtStart' = [i \in DOMAIN meetings |->
                         IF meetings[i].recording_available
                         THEN meetings[i].recording_url ELSE NULL]
    /\ pc' = IF task = "main" THEN "getMeetings" ELSE "done"
    /\ UNCHANGED <<store, now, resp, podUsers, oMeeting>>

\* get_bbb_meetings_by_xml up to its loop: the request and the parse.
RequestMeetings(status) ==
    /\ pc = "getMeetings"
    /\ IF status = "MALFORMED"
       THEN /\ message_error' = Append(message_error, ErrParseMeetings)
            /\ html_message_error' = Append(html_message_error, Li(ErrParseMeetings))
            /\ caught' = caught \cup {ErrParseMeetings}
            /\ pc' = "recorded"
            /\ Fault(1)
       ELSE IF status = "FAILED"
       THEN /\ message_error' = Append(message_error, ErrFailedMeetings)
            /\ html_message_error' = Append(html_message_error, Li(ErrFailedMeetings))
            /\ caught' = caught
            /\ pc' = "meetings"
            /\ Fault(1)
       ELSE /\ UNCHANGED <<report, caught>>
            /\ pc' = "meetings"
            /\ Fault(0)
    /\ UNCHANGED <<store, runs, now, mailed, uncaught, idActualMeeting, queue,
                   requests, urlAtStart, todo, resp, podUsers, oMeeting>>

\* One meeting of the response: get_meeting up to its loop over the
\* attendees.  What get_meeting returns is dropped by its caller.
GetMeeting(m) ==
    /\ pc = "meetings"
    /\ LET r == get_meeting(meetings, m)
       IN  /\ meetings' = r.meetings
           /\ idActualMeeting' = r.id
           /\ caught' = caught \cup r.caught
           /\ Fault(Cardinality(r.caught))
    /\ UNCHANGED <<bbbUsers, videos, encoded, files, pc, runs, now, report,
                   mailed, uncaught, queue, requests, urlAtStart, todo, resp, podUsers, oMeeting>>

\* One attendee of the meeting being read: get_attendee.  What it returns is
\* dropped by get_meeting.
GetAttendee(a) ==
    /\ pc = "meetings"
    /\ idActualMeeting # 0
    /\ LET r == get_attendee(bbbUsers, a, idActualMeeting)
       IN  /\ bbbUsers' = r.users
           /\ caught' = caught \cup r.caught
           /\ Fault(Cardinality(r.caught))
    /\ UNCHANGED <<meetings, videos, encoded, files, pc, runs, now, report,
                   mailed, uncaught, idActualMeeting, queue, requests,
                   urlAtStart, todo, resp, podUsers, oMeeting>>

\* The response has no further meeting: get_bbb_meetings_by_xml returns.
EndMeetings ==
    /\ pc = "meetings"
    /\ pc' = "recorded"
    /\ idActualMeeting' = 0
    /\ UNCHANGED <<store, runs, now, report, caught, mailed, uncaught, queue,
                   requests, urlAtStart, todo, faults, resp, podUsers, oMeeting>>

\* get_bbb_meetings_recorded reads the clock (day) and evaluates its queryset.
SelectRecorded(day) ==
    /\ pc = "recorded"
    /\ day >= now
    /\ now' = day
    /\ queue' = RecordedQuery(meetings, day)
    /\ pc' = "getRecordings"
    /\ UNCHANGED <<store, runs, report, caught, mailed, uncaught,
                   idActualMeeting, requests, urlAtStart, todo, faults, resp, podUsers, oMeeting>>

\* get_bbb_recording_by_xml for the next row, up to its loop: the request and
\* the parse.  What it returns is kept by get_bbb_meetings_recorded.
RequestRecordings(status) ==
    /\ pc = "getRecordings"
    /\ queue # <<>>
    /\ requests' = Append(requests, Head(queue).id)
    /\ IF status = "MALFORMED"
       THEN /\ message_error' = Append(message_error, ErrParseRecording)
            /\ html_message_error' = Append(html_message_error, Li(ErrParseRecording))
            /\ caught' = caught \cup {ErrParseRecording}
            /\ queue' = Tail(queue)
            /\ pc' = "getRecordings"
            /\ Fault(1)
       ELSE IF status = "FAILED"
       THEN /\ message_error' = Append(message_error, ErrFailedRecordings)
            /\ html_message_error' = Append(html_message_error, Li(ErrFailedRecordings))
            /\ UNCHANGED <<caught, queue>>
            /\ pc' = "recordings"
            /\ Fault(1)
       ELSE /\ UNCHANGED <<report, caught, queue>>
            /\ pc' = "recordings"
            /\ Fault(0)
    /\ UNCHANGED <<store, runs, now, mailed, uncaught, idActualMeeting,
                   urlAtStart, todo, resp, podUsers, oMeeting>>

\* One recording of the response for the row polled: get_recording.  What it
\* returns is dropped by get_bbb_recording_by_xml.
GetRecording(recording) ==
    /\ pc = "recordings"
    /\ LET r == get_recording(meetings, recording, Head(queue).internal_meeting_id)
       IN  /\ meetings' = r.meetings
           /\ caught' = caught \cup r.caught
           /\ Fault(Cardinality(r.caught))
    /\ UNCHANGED <<bbbUsers, videos, encoded, files, pc, runs, now, report,
                   mailed, uncaught, idActualMeeting, queue, requests,
                   urlAtStart, todo, resp, podUsers, oMeeting>>

\* The response has no further recording: on to the next row.
EndRecordings ==
    /\ pc = "recordings"
    /\ queue' = Tail(queue)
    /\ pc' = "getRecordings"
    /\ UNCHANGED <<store, runs, now, report, caught, mailed, uncaught,
                   idActualMeeting, requests, urlAtStart, todo, faults, resp, podUsers, oMeeting>>

\* Every row was polled: get_bbb_meetings_recorded returns.
EndPolling ==
    /\ pc = "getRecordings"
    /\ queue = <<>>
    /\ pc' = "matching"
    /\ UNCHANGED <<store, runs, now, report, caught, mailed, uncaught,
                   idActualMeeting, queue, requests, urlAtStart, todo, faults, resp, podUsers, oMeeting>>

\* matching_bbb_pod_user.
MatchUsers ==
    /\ pc = "matching"
    /\ bbbUsers' = matching_bbb_pod_user(bbbUsers)
    /\ pc' = "walk"
    /\ UNCHANGED <<meetings, videos, encoded, files, runs, now, report, caught,
                   mailed, uncaught, idActualMeeting, queue, requests,
                   urlAtStart, todo, faults, resp, podUsers, oMeeting>>

\* os.walk lists DEFAULT_BBB_PATH.
Walk ==
    /\ pc = "walk"
    /\ todo' = files
    /\ pc' = "files"
    /\ UNCHANGED <<store, runs, now, report, caught, mailed, uncaught,
                   idActualMeeting, queue, requests, urlAtStart, faults, resp, podUsers, oMeeting>>

\* One file of the listing: the body of process_directory's loop.  An
\* exception of encode_file_exist is caught nowhere and leaves handle: it
\* ends the run, whatever the run met before.
ProcessFile(f, outcome) ==
    /\ pc = "files"
    /\ f \in todo
    /\ todo' = todo \ {f}
    /\ IF ~IsVideoFile(f)
       THEN /\ UNCHANGED <<videos, encoded, files, pc, uncaught>>
            /\ Fault(0)
       ELSE LET r == encode_file_exist(meetings, videos, encoded, files, f, outcome)
            IN  /\ videos' = r.videos
                /\ encoded' = r.encoded
                /\ files' = r.files
                /\ uncaught' = r.raised
                /\ pc' = IF r.raised = "none" THEN "files" ELSE "aborted"
                /\ Fault(0)
    /\ UNCHANGED <<meetings, bbbUsers, runs, now, report, caught, mailed,
                   idActualMeeting, queue, requests, urlAtStart, resp, podUsers, oMeeting>>

\* The listing is exhausted.
EndWalk ==
    /\ pc = "files"
    /\ todo = {}
    /\ pc' = "report"
    /\ UNCHANGED <<store, runs, now, report, caught, mailed, uncaught,
                   idActualMeeting, queue, requests, urlAtStart, todo, faults, resp, podUsers, oMeeting>>

\* The end of handle: mail_admins if message_error is not empty.
Report ==
    /\ pc = "report"
    /\ mailed' = IF message_error # <<>> THEN mailed + 1 ELSE mailed
    /\ pc' = "done"
    /\ UNCHANGED <<store, runs, now, report, caught, uncaught, idActualMeeting,
                   queue, requests, urlAtStart, todo, faults, resp, podUsers, oMeeting>>

\* Between two runs the accounts of Pod are edited (nothing in the command
\* writes them).
SetAccounts(table) ==
    /\ pc \in Ended
    /\ table # podUsers
    /\ podUsers' = table
    /\ UNCHANGED <<store, pc, runs, now, report, caught, mailed, uncaught,
                   idActualMeeting, queue, requests, urlAtStart, todo, faults, resp,
                   oMeeting>>

\* A second invocation runs while this one does.  Of that run, its
\* get_meeting for a meeting the database already holds, in two steps.  First
\* it reads the row (Meeting.objects.filter(...).first()) and keeps it with
\* the recording flag of its own response.
ReadMeeting(m) ==
    /\ pc \notin Ended
    /\ oMeeting = <<>>
    /\ m.internalMeetingID # NoElem
    /\ ExistingMeeting(meetings, m) # 0
    /\ oMeeting' = <<[row |-> meetings[ExistingMeeting(meetings, m)],
                      recording |-> m.recording]>>
    /\ UNCHANGED <<store, pc, runs, now, report, caught, mailed, uncaught,
                   idActualMeeting, queue, requests, urlAtStart, todo, faults, resp,
                   podUsers>>

\* Then it tests the row it read and, to flip recorded, saves it:
\* oMeeting.save() writes every field of the object read.
SaveMeeting ==
    /\ oMeeting # <<>>
    /\ LET o == oMeeting[1]
       IN  meetings' = IF o.row.recorded = FALSE /\ o.recording = "true"
                       THEN [meetings EXCEPT ![o.row.id] = [o.row EXCEPT !.recorded = TRUE]]
                       ELSE meetings
    /\ oMeeting' = <<>>
    /\ UNCHANGED <<bbbUsers, videos, encoded, files, pc, runs, now, report, caught,
                   mailed, uncaught, idActualMeeting, queue, requests, urlAtStart,
                   todo, faults, resp, podUsers>>

(***************************************************************************)
(* The next-state relation over an environment E: the sets the remote      *)
(* server, the file system and the scheduler draw their inputs from.       *)
(***************************************************************************)
NextOver(E) ==
    \/ \E f \in E.files : DropFile(f)
    \/ \E task \in E.tasks : StartRun(task)
    \/ \E status \in E.statuses : RequestMeetings(status)
    \/ \E m \in E.meetings : GetMeeting(m)
    \/ \E a \in E.attendees : GetAttendee(a)
    \/ EndMeetings
    \/ \E day \in E.days : SelectRecorded(day)
    \/ EndRecordings
    \/ \E status \in E.statuses : RequestRecordings(status)
    \/ \E recording \in E.recordings : GetRecording(recording)
    \/ EndPolling
    \/ MatchUsers
    \/ Walk
    \/ \E f \in E.files, outcome \in E.outcomes : ProcessFile(f, outcome)
    \/ EndWalk
    \/ Report

\* Every input the model knows.
Everything ==
    [files |-> FileNames, tasks |-> {"main", "other"}, statuses |-> Statuses,
     meetings |-> RemoteMeetings, attendees |-> RemoteAttendees,
     days |-> 0..MaxDay, recordings |-> RemoteRecordings, outcomes |-> Outcomes]

Next ==
    \/ NextOver(Everything)
    \/ \E table \in AccountTables : SetAccounts(table)
    \/ \E m \in Everything.meetings : ReadMeeting(m)
    \/ SaveMeeting

Spec == Init /\ [][Next]_vars

\* Sessions in full; recordings of one playback at most (get_recording keeps
\* the values of one playback); the clock on the last day a meeting of day 0
\* is polled and on the last day of the model; attendees that leave no row,
\* a file that is no video.
SessionsEnv ==
    [Everything EXCEPT
        !.attendees = [fullName : {JeanDupont, NoText}, role : {"VIEWER"}],
        !.days = {WindowDays, MaxDay},
        !.recordings = [internalMeetingID : InternalIds \cup {NoElem},
                        playbacks : SeqsUpTo(Playbacks, 1)],
        !.files = {<<"M1", "txt">>},
        !.outcomes = {"ok"}]

NextSessions == NextOver(SessionsEnv)

SpecSessions == Init /\ [][NextSessions]_vars

\* Moderators and their matching in full; recordings that change nothing.
UsersEnv ==
    [Everything EXCEPT
        !.meetings = {m \in RemoteMeetings : /\ m.createDate = DateText(0)
                                              /\ m.internalMeetingID # NoElem
                                              /\ m.recording = "true"},
        !.attendees = [fullName : {JeanDupont, Dupont, NoText}, role : Roles],
        !.recordings = {[internalMeetingID |-> "M1", playbacks |-> <<>>]},
        !.statuses = {"SUCCESS"},
        !.days = {0},
        !.files = {<<"M1", "txt">>},
        !.outcomes = {"ok"}]

NextUsers == NextOver(UsersEnv)

SpecUsers == Init /\ [][NextUsers]_vars

\* As SpecUsers, the accounts edited between the runs.
NextAccounts ==
    \/ NextOver(UsersEnv)
    \/ \E table \in AccountTables : SetAccounts(table)

SpecAccounts == Init /\ [][NextAccounts]_vars

\* The drop directory and the failures of a move or a submission in full;
\* responses without errors.
IngestEnv ==
    [Everything EXCEPT
        !.meetings = {m \in RemoteMeetings : /\ m.createDate = DateText(0)
                                              /\ m.internalMeetingID # NoElem
                                              /\ m.recording = "true"},
        !.attendees = {[fullName |-> JeanDupont, role |-> "MODERATOR"]},
        !.recordings = {[internalMeetingID |-> "M1",
                         playbacks |-> <<[url |-> "U1", image |-> "T1"]>>]},
        !.statuses = {"SUCCESS", "FAILED"},
        !.days = {0}]

NextIngest == NextOver(IngestEnv)

SpecIngest == Init /\ [][NextIngest]_vars

\* Recorded and unrecorded meetings with a moderator, recordings of several
\* playbacks, every element present; a poll inside the window and one
\* outside.
PollEnv ==
    [Everything EXCEPT
        !.meetings = {m \in RemoteMeetings : /\ m.createDate = DateText(0)
                                              /\ m.internalMeetingID # NoElem},
        !.attendees = {[fullName |-> AnaGomez, role |-> "MODERATOR"]},
        !.recordings = [internalMeetingID : InternalIds,
                        playbacks : SeqsUpTo({p \in Playbacks : p.url # NoElem},
                                             MaxPlaybacks)],
        !.statuses = {"SUCCESS"},
        !.days = {0, MaxDay},
        !.files = {<<"M1", "txt">>},
        !.outcomes = {"ok"}]

NextPoll == NextOver(PollEnv)

SpecPoll == Init /\ [][NextPoll]_vars

\* Two invocations that overlap: Session M1, announced with and without the
\* recording flag, one recording of one playback for it.
OverlapEnv ==
    [Everything EXCEPT
        !.meetings = {m \in RemoteMeetings : /\ m.createDate = DateText(0)
                                              /\ m.internalMeetingID = "M1"},
        !.attendees = {[fullName |-> AnaGomez, role |-> "MODERATOR"]},
        !.recordings = {[internalMeetingID |-> "M1",
                         playbacks |-> <<[url |-> "U1", image |-> "T1"]>>]},
        !.statuses = {"SUCCESS"},
        !.days = {0},
        !.files = {<<"M1", "txt">>},
        !.outcomes = {"ok"}]

NextOverlap ==
    \/ NextOver(OverlapEnv)
    \/ \E m \in OverlapEnv.meetings : ReadMeeting(m)
    \/ SaveMeeting

SpecOverlap == Init /\ [][NextOverlap]_vars

(***************************************************************************)
(* The matcher on a long table: after the meeting of a first moderator,    *)
(* Ana Gomez, who has no account, moderated `later` meetings.              *)
(***************************************************************************)
Backlogs == (MatchLimit - MaxExtra)..(MatchLimit + MaxExtra)

MeetingsOf(later) ==
    [i \in 1..(later + 1) |->
        [id |-> i,
         meeting_id |-> "E1",
         internal_meeting_id |-> ToString(i),
         meeting_name |-> "Cours",
         session_date |-> 0,
         encoding_step |-> 0,
         recorded |-> FALSE,
         recording_available |-> FALSE,
         recording_url |-> NULL,
         thumbnail_url |-> NULL,
         encoded_by_id |-> NoId]]

ModeratorsOf(first, later) ==
    [i \in 1..(later + 1) |->
        [full_name |-> IF i = 1 THEN first ELSE AnaGomez,
         role |-> "MODERATOR",
         meeting_id |-> i,
         user_id |-> NoId,
         username |-> NULL]]

InitMatcher ==
    /\ \E first \in {JeanDupont, AnaGomez}, later \in Backlogs :
           /\ meetings = MeetingsOf(later)
           /\ bbbUsers = ModeratorsOf(first, later)
    /\ videos = <<>>
    /\ encoded = <<>>
    /\ files = {}
    /\ pc = "idle"
    /\ runs = 0
    /\ now = 0
    /\ message_error = <<>>
    /\ html_message_error = <<>>
    /\ caught = {}
    /\ mailed = 0
    /\ uncaught = "none"
    /\ idActualMeeting = 0
    /\ queue = <<>>
    /\ requests = <<>>
    /\ urlAtStart = <<>>
    /\ todo = {}
    /\ faults = 0
    /\ resp = <<>>
    /\ podUsers = PodUsers
    /\ oMeeting = <<>>

\* One more run, of which the matcher alone has something to do.
RunMatcher ==
    /\ pc \in {"idle", "matched"}
    /\ runs < MaxRuns
    /\ runs' = runs + 1
    /\ bbbUsers' = matching_bbb_pod_user(bbbUsers)
    /\ pc' = "matched"
    /\ UNCHANGED <<meetings, videos, encoded, files, now, report, caught, mailed,
                   uncaught, idActualMeeting, queue, requests, urlAtStart, todo,
                   faults, resp, podUsers, oMeeting>>

NextMatcher == RunMatcher

SpecMatcher == InitMatcher /\ [][NextMatcher]_vars

(***************************************************************************)
(* Discovery on a whole response, and again on the identical response.     *)
(***************************************************************************)
IdemMeetings ==
    {m \in RemoteMeetings : /\ m.createDate # DateText(1)
                             /\ (m.internalMeetingID = NoElem =>
                                    m.createDate = DateText(0) /\ m.recording = "true")}

IdemAttendees ==
    {a \in RemoteAttendees : /\ a.fullName \in {JeanDupont, NoText}
                              /\ (a.fullName = NoText => a.role = "MODERATOR")}

Responses ==
    [status : {"SUCCESS"},
     meetings : SeqsUpTo([meeting : IdemMeetings,
                          attendees : SeqsUpTo(IdemAttendees, MaxAttendees)],
                         MaxMeetings)]
    \cup [status : {"FAILED", "MALFORMED"}, meetings : {<<>>}]

\* A run whose discovery receives the response r.
Reconcile(r) ==
    /\ pc \in {"idle", "rerun"}
    /\ runs < MaxRuns
    /\ runs' = runs + 1
    /\ resp' = r
    /\ LET d == get_bbb_meetings_by_xml(meetings, bbbUsers, r, <<>>, <<>>)
       IN  /\ meetings' = d.meetings
           /\ bbbUsers' = d.users
           /\ message_error' = d.message_error
           /\ html_message_error' = d.html_message_error
           /\ caught' = d.caught
    /\ pc' = "reconciled"
    /\ UNCHANGED <<videos, encoded, files, now, mailed, uncaught, idActualMeeting,
                   queue, requests, urlAtStart, todo, faults, podUsers, oMeeting>>

\* The next run's discovery receives the identical response, which is then
\* forgotten.
Rerun ==
    /\ pc = "reconciled"
    /\ LET d == get_bbb_meetings_by_xml(meetings, bbbUsers, resp, <<>>, <<>>)
       IN  /\ meetings' = d.meetings
           /\ bbbUsers' = d.users
           /\ message_error' = d.message_error
           /\ html_message_error' = d.html_message_error
           /\ caught' = d.caught
    /\ pc' = "rerun"
    /\ resp' = <<>>
    /\ UNCHANGED <<videos, encoded, files, runs, now, mailed, uncaught,
                   idActualMeeting, queue, requests, urlAtStart, todo, faults,
                   podUsers, oMeeting>>

NextIdem ==
    \/ \E r \in Responses : Reconcile(r)
    \/ Rerun

SpecIdem == Init /\ [][NextIdem]_vars

(***************************************************************************)
(* Properties.                                                             *)
(***************************************************************************)
Entries(seq) == {seq[k] : k \in DOMAIN seq}

\* C1: a Session whose recording was available when a run started keeps
\* recording_available = true and the same recording_url all through that
\* run and after it, whatever the run receives.
C1_Monotonic ==
    \A i \in DOMAIN urlAtStart :
        urlAtStart[i] # NULL =>
            /\ i \in DOMAIN meetings
            /\ meetings[i].recording_available = TRUE
            /\ meetings[i].recording_url = urlAtStart[i]

\* A second run that has polled some Session has ended, on a database that
\* held an available recording when it started.
C1_Witness ==
    /\ runs = 2
    /\ pc = "done"
    /\ requests # <<>>
    /\ \E i \in DOMAIN urlAtStart : urlAtStart[i] # NULL

\* C2: the discovery of a run that receives the response of the run before
\* leaves both tables as they were: no row added, no field changed.
C2_Idempotent ==
    [][pc' = "rerun" => (meetings' = meetings /\ bbbUsers' = bbbUsers)]_vars

\* C3: no Session has recording_available = true with a recording_url that
\* is NULL or empty.
C3_AvailableHasUrl ==
    \A i \in DOMAIN meetings :
        meetings[i].recording_available = TRUE =>
            meetings[i].recording_url \notin {NULL, ""}

\* The poller has made a recording available.
C3_Witness ==
    \E i \in DOMAIN meetings : meetings[i].recording_available = TRUE

\* C4: when a run reaches its report, every error that reached an except
\* clause during the run is an entry of message_error.
C4_CaughtErrorsReported ==
    pc = "report" => caught \subseteq Entries(message_error)

\* C5: no run ends on an exception, unless it is a failure to persist.
C5_RunReachesReporting ==
    pc = "aborted" => uncaught = "DatabaseError"

\* C6: a run that met a failed move or a failed submission leaves no video
\* file of its listing unprocessed.
C6_RemainingFilesProcessed ==
    uncaught \in {"OSError", "EncodeError"} =>
        \A f \in todo : ~IsVideoFile(f)

\* C7, as amended: once the matcher of a run has run, a Participant named
\* "Dupont" is linked to the account Jean Dupont, whose formatted name
\* contains it, and so is a Participant named "Jean Dupont".
C7_FragmentIsLinked ==
    pc \in {"walk", "files", "report"} =>
        \A i \in DOMAIN bbbUsers :
            bbbUsers[i].full_name \in {Dupont, JeanDupont} =>
                /\ bbbUsers[i].user_id = 1
                /\ bbbUsers[i].username = "jdupont"

\* The matcher has run on a Participant "Dupont" and a Participant
\* "Jean Dupont".
C7_Witness ==
    /\ pc = "walk"
    /\ \E i, j \in DOMAIN bbbUsers : /\ bbbUsers[i].full_name = Dupont
                                      /\ bbbUsers[j].full_name = JeanDupont
                                      /\ bbbUsers[i].user_id = 1
                                      /\ bbbUsers[j].user_id = 1

\* C7, as stated: once the matcher of a run has run, a Participant named
\* "Dupont" is not linked and a Participant named "Jean Dupont" is.
C7_FragmentIsNotLinked ==
    pc \in {"walk", "files", "report"} =>
        \A i \in DOMAIN bbbUsers :
            /\ bbbUsers[i].full_name = Dupont => bbbUsers[i].user_id = NoId
            /\ bbbUsers[i].full_name = JeanDupont => bbbUsers[i].user_id = 1

\* C8: the poller's queryset holds, in ascending order of key, exactly the
\* Sessions with recorded = true, recording_available = false and
\* session_date >= now - 4 days; every request is made for the head of the
\* queryset, a Session that still meets the three conditions; the queryset
\* only loses its head, once requested; and polling ends on an empty queryset.
C8_PolledExactly ==
    [][/\ pc = "recorded" =>
            /\ \A k \in 1..(Len(queue') - 1) : queue'[k].id < queue'[k + 1].id
            /\ {queue'[k].id : k \in DOMAIN queue'}
                  = {i \in DOMAIN meetings : /\ meetings[i].recorded = TRUE
                                             /\ meetings[i].recording_available = FALSE
                                             /\ meetings[i].session_date >= now' - 4}
       /\ (pc = "getRecordings" /\ requests' # requests) =>
            /\ requests' = Append(requests, Head(queue).id)
            /\ meetings[Head(queue).id].recorded = TRUE
            /\ meetings[Head(queue).id].recording_available = FALSE
            /\ meetings[Head(queue).id].session_date >= now - 4
       /\ (pc \in {"getRecordings", "recordings"} /\ queue' # queue) =>
            /\ queue' = Tail(queue)
            /\ requests' # <<>>
            /\ requests'[Len(requests')] = Head(queue).id
       /\ (pc = "getRecordings" /\ pc' = "matching") => queue = <<>>
       /\ (pc \in {"getMeetings", "meetings", "matching", "walk", "files", "report"}) =>
            requests' = requests
      ]_vars

\* Polling has ended with one request, and a recorded Session without a
\* recording, older than 4 days, was not polled.
C8_Witness ==
    /\ pc = "matching"
    /\ Len(requests) = 1
    /\ \E i \in DOMAIN meetings : /\ meetings[i].recorded = TRUE
                                   /\ meetings[i].recording_available = FALSE
                                   /\ meetings[i].session_date < now - 4
                                   /\ requests[1] # i

\* C9: no two Participants have the same full_name and the same meeting.
C9_UniqueParticipant ==
    \A i, j \in DOMAIN bbbUsers :
        (/\ bbbUsers[i].full_name = bbbUsers[j].full_name
         /\ bbbUsers[i].meeting_id = bbbUsers[j].meeting_id) => i = j

\* The discovery of a second run reads again a meeting whose moderator was
\* saved, and linked, by the first run.
C9_Witness ==
    /\ runs = 2
    /\ pc = "meetings"
    /\ idActualMeeting # 0
    /\ Len(bbbUsers) >= 2
    /\ \E i \in DOMAIN bbbUsers : /\ bbbUsers[i].meeting_id = idActualMeeting
                                   /\ bbbUsers[i].user_id # NoId

\* C10: no two Sessions have the same internal_meeting_id.
C10_UniqueInternalId ==
    \A i, j \in DOMAIN meetings :
        meetings[i].internal_meeting_id = meetings[j].internal_meeting_id => i = j

\* The discovery of a second run has just found, for a meeting of its
\* response, the first of two Sessions of the database.
C10_Witness ==
    /\ runs = 2
    /\ pc = "meetings"
    /\ Len(meetings) = 2
    /\ idActualMeeting = 1

\* C11: the ingestion of a video file whose name matches the internal id of
\* no Session adds a warning to the report of the run and changes nothing
\* else: the file stays in the directory, no video is created, nothing is
\* handed to the encoder.
C11_NoSessionWarns ==
    [][\A f \in FileNames :
          (/\ pc = "files"
           /\ f \in todo
           /\ f \notin todo'
           /\ IsVideoFile(f)
           /\ FindMeeting(meetings, InternalIdOf(f)) = 0) =>
              /\ message_error' # message_error
              /\ files' = files
              /\ videos' = videos
              /\ encoded' = encoded
      ]_vars

\* C12: a meeting discovered with recording "true" is created with
\* recorded = true and recording_available = false, and its moderators are
\* saved with it; when a poll of the Session receives a recording with the
\* internal id of the Session and a playback URL, the Session has
\* recording_available = true and that URL, and has them until the run ends.
C12_Lifecycle ==
    [][/\ \A m \in RemoteMeetings :
            (GetMeeting(m) /\ Len(meetings') > Len(meetings) /\ m.recording = "true") =>
                /\ meetings'[Len(meetings')].internal_meeting_id = m.internalMeetingID
                /\ meetings'[Len(meetings')].recorded = TRUE
                /\ meetings'[Len(meetings')].recording_available = FALSE
       /\ \A a \in RemoteAttendees :
            (GetAttendee(a) /\ a.fullName # NoText /\ a.role = "MODERATOR") =>
                \E u \in DOMAIN bbbUsers' :
                    /\ bbbUsers'[u].full_name = a.fullName
                    /\ bbbUsers'[u].meeting_id = idActualMeeting
       /\ \A rec \in RemoteRecordings :
            (/\ GetRecording(rec)
             /\ rec.internalMeetingID = Head(queue).internal_meeting_id
             /\ rec.playbacks # <<>>
             /\ \A k \in DOMAIN rec.playbacks : rec.playbacks[k].url # NoElem) =>
                /\ meetings'[Head(queue).id].recording_available = TRUE
                /\ meetings'[Head(queue).id].recording_url
                       \in {rec.playbacks[k].url : k \in DOMAIN rec.playbacks}
       /\ \A i \in DOMAIN meetings :
            (pc \notin Ended /\ meetings[i].recording_available = TRUE) =>
                /\ meetings'[i].recording_available = TRUE
                /\ meetings'[i].recording_url = meetings[i].recording_url
      ]_vars

\* C17: a recording that get_recording saves gives the Session the URL and
\* the thumbnail of its first playback.
C17_FirstPlayback ==
    [][\A rec \in RemoteRecordings :
          (GetRecording(rec) /\ meetings' # meetings) =>
              /\ meetings'[Head(queue).id].recording_url = rec.playbacks[1].url
              /\ meetings'[Head(queue).id].thumbnail_url = rec.playbacks[1].image
      ]_vars

\* C18: once a Session has recording_available = true, no step writes other
\* values to recording_available, recording_url or thumbnail_url.
C18_WrittenOnce ==
    [][\A i \in DOMAIN meetings :
          meetings[i].recording_available = TRUE =>
              /\ meetings'[i].recording_available = TRUE
              /\ meetings'[i].recording_url = meetings[i].recording_url
              /\ meetings'[i].thumbnail_url = meetings[i].thumbnail_url
      ]_vars

\* C13: mail_admins is called at the end of a run only, once, with a
\* message_error that is not empty; and a run ends with the mail sent exactly
\* when its message_error is not empty.
C13_ReportExactly ==
    [][/\ (pc \notin Ended /\ mailed' # mailed) =>
            /\ pc = "report"
            /\ message_error # <<>>
            /\ mailed = 0
            /\ mailed' = 1
       /\ (pc \notin Ended /\ pc' \in Ended) =>
            (mailed' = 1 <=> message_error' # <<>>)
      ]_vars

\* C14: the matcher converges.  With the accounts fixed, a run of the matcher
\* that links nobody leaves the table as it was, and so does every run after
\* it; when that happens no unresolved Participant that some account matches
\* is left.
C14_Converges ==
    [][(pc' = "matched" /\ bbbUsers' = bbbUsers) =>
          \A i \in DOMAIN bbbUsers :
              bbbUsers[i].user_id = NoId => FindPodUser(bbbUsers[i].full_name) = 0
      ]_vars

\* C15: a Participant that has a user_id keeps its user_id and its username
\* in every step: the matcher and the discovery of later runs leave them,
\* also when the accounts have changed or the moderator is seen again.
C15_FirstMatchFinal ==
    [][\A i \in DOMAIN bbbUsers :
          bbbUsers[i].user_id # NoId =>
              /\ i \in DOMAIN bbbUsers'
              /\ bbbUsers'[i].user_id = bbbUsers[i].user_id
              /\ bbbUsers'[i].username = bbbUsers[i].username
      ]_vars

\* The matcher of a second run has run after account 1 changed hands: the
\* Participant "Dupont" linked to jdupont by the first run would now be
\* matched to adupont.
C15_Witness ==
    /\ runs = 2
    /\ pc = "walk"
    /\ podUsers = PodUsersLater
    /\ \E i \in DOMAIN bbbUsers : /\ bbbUsers[i].full_name = Dupont
                                   /\ bbbUsers[i].username = "jdupont"
                                   /\ podUsers[FindPodUser(Dupont)].username = "adupont"

\* C16: every Participant of the table has the role MODERATOR, and an
\* attendee reported with another role leaves the table as it was.
C16_OnlyModerators ==
    [][/\ \A i \in DOMAIN bbbUsers' : bbbUsers'[i].role = "MODERATOR"
       /\ \A a \in RemoteAttendees :
            (GetAttendee(a) /\ a.role # "MODERATOR") => bbbUsers' = bbbUsers
      ]_vars

\* A meeting whose moderator is saved is being read, where an attendee of
\* the same name with another role changes nothing; another attendee of the
\* meeting has no row.
C16_Witness ==
    /\ pc = "meetings"
    /\ idActualMeeting # 0
    /\ FindBBBUser(bbbUsers, JeanDupont, idActualMeeting) # 0
    /\ FindBBBUser(bbbUsers, Dupont, idActualMeeting) = 0

\* C19: a recording read for the Session polled changes that Session alone,
\* and only when its internalMeetingID is the internal id of the Session; a
\* recording with another internalMeetingID changes no Session, not even
\* the Session with that internal id and the same meetingID.
C19_OnlyOwnRecording ==
    [][pc = "recordings" =>
          \A i \in DOMAIN meetings :
              meetings'[i] # meetings[i] =>
                  /\ i = Head(queue).id
                  /\ \A rec \in RemoteRecordings :
                        GetRecording(rec) =>
                            rec.internalMeetingID = meetings[i].internal_meeting_id
      ]_vars

\* While Session 1 is polled, Session 2, of the same meetingID, is recorded
\* and waits for its recording; Session 1 has got its own.
C19_Witness ==
    /\ pc = "recordings"
    /\ Len(meetings) = 2
    /\ Head(queue).id = 1
    /\ meetings[1].meeting_id = meetings[2].meeting_id
    /\ meetings[1].recording_available = TRUE
    /\ meetings[2].recorded = TRUE
    /\ meetings[2].recording_available = FALSE

\* C20: the discovery changes nothing of a Session that exists but recorded,
\* which it turns from false to true when the meeting of the response has
\* recording "true": recorded never goes back to false and no other field
\* changes.
C20_DiscoveryFrame ==
    [][pc = "meetings" =>
          \A i \in DOMAIN meetings :
              \/ meetings'[i] = meetings[i]
              \/ /\ meetings[i].recorded = FALSE
                 /\ meetings'[i] = [meetings[i] EXCEPT !.recorded = TRUE]
                 /\ \A m \in RemoteMeetings :
                       GetMeeting(m) =>
                           /\ m.recording = "true"
                           /\ m.internalMeetingID = meetings[i].internal_meeting_id
      ]_vars

\* The discovery of a run has just read a meeting whose Session existed
\* before the run, recorded and with its recording available.
C20_Witness ==
    /\ pc = "meetings"
    /\ idActualMeeting \in DOMAIN urlAtStart
    /\ urlAtStart[idActualMeeting] # NULL
    /\ meetings[idActualMeeting].recorded = TRUE

C23_MovedOnceWithAsset ==
    [][/\ pc = "files" =>
            /\ Len(videos') <= Len(videos) + 1
            /\ Len(encoded') <= Len(encoded) + 1
            /\ SubSeq(videos', 1, Len(videos)) = videos
            /\ SubSeq(encoded', 1, Len(encoded)) = encoded
            /\ Len(videos') > Len(videos) =>
                  /\ videos'[Len(videos')].video \in files \ files'
                  /\ \A k \in DOMAIN videos : videos[k].id # videos'[Len(videos')].id
            /\ Len(encoded') > Len(encoded) =>
                  /\ Len(videos') > Len(videos)
                  /\ encoded'[Len(encoded')] = videos'[Len(videos')].id
            /\ \A f \in files \ files' :
                  /\ Len(videos') > Len(videos)
                  /\ videos'[Len(videos')].video = f
            /\ Cardinality(files \ files') <= 1
       /\ ~(files' \subseteq files) => (pc = "walk" /\ pc' = "walk")
       /\ todo' \subseteq todo \cup files
       /\ \A j, k \in DOMAIN encoded' : encoded'[j] = encoded'[k] => j = k
      ]_vars

\* C22: when the get_meeting of an overlapping run saves the row it read
\* earlier, no Session that has its recording (recording_available true, a
\* recording_url) is put back to recording_available false or to a null
\* recording_url.
C22_NotPutBack ==
    [][(oMeeting # <<>> /\ oMeeting' = <<>>) =>
          \A i \in DOMAIN meetings :
              (meetings[i].recording_available = TRUE /\ meetings[i].recording_url # NULL) =>
                  /\ meetings'[i].recording_available = TRUE
                  /\ meetings'[i].recording_url # NULL
      ]_vars

====
